---- MODULE Spec2Model ----
(***************************************************************************)
(* Model of two scripts of the OTRadioLink repository:                     *)
(*   - model/room_model/room_model2.py: the log loader get_valve_data and  *)
(*     the room simulation loop that follows it at module level;           *)
(*   - dev/utils/REV7KeyProgramming/config_rev7.py: the REV7 key           *)
(*     provisioning run (main and its helpers).                            *)
(*                                                                         *)
(* Numbers.  Python floats are modelled as exact rationals <<n, d>> with   *)
(* d > 0 in lowest terms (rounding is not modelled).  The two pairs with   *)
(* d = 0 stand for Python's None and for the non-finite floats (inf, -inf, *)
(* nan) that numpy produces on a division by zero.                         *)
(***************************************************************************)
EXTENDS Integers, Sequences, FiniteSets, TLC

\* ------------------------------------------------------------------ bounds
MaxIter == 3        \* N_ITERATIONS ranges over 0..MaxIter
MaxLog == 3         \* a log holds at most MaxLog lines
MaxT == 2           \* timestamps are whole seconds 0..MaxT
MaxDensity == 2     \* DENSITY_AIR ranges over -1..MaxDensity
MaxStorage == 2     \* C_STORAGE ranges over -1..MaxStorage
MaxHlp == 2         \* DHD_HLP ranges over 1..MaxHlp

\* ------------------------------------------------------- program constants
START_TEMP == 20
OUTSIDE_TEMP == 0
STORAGE_CONDUCTANCE == 1
TARGET_ID == "96F0CED3B4E690E8"

VARIABLES
    \* room_model2.py
    pc,                \* position in the script
    err,               \* the exception that ended the script, "" if none
    N_ITERATIONS,      \* line 26
    cfg,               \* the "SET THESE VALUES" and physical constants, lines 21-37
    log,               \* the decoded lines of the log file
    temperatures,      \* get_valve_data: (elapsed, value) list, line 72
    valve_pc_list,     \* get_valve_data: local valve_open_pc list, line 73
    temp,              \* get_valve_data: temp as bucketed by lines 75-81
    open_pc,           \* get_valve_data: open_pc as bucketed by lines 76-86
    valve_room_temps,  \* line 95, first returned array
    valve_open_pc,     \* line 95, second returned array
    air_temps, heat_in, heat_out, heat_stored,   \* lines 152-155
    i,                 \* loop index of line 158
    prev,              \* what the latest step read through index i-1
    \* config_rev7.py
    ppc,               \* position in main
    perr,              \* how the run ended early, "" if it did not
    serNo_REV7,        \* line 116
    keyfile,           \* rows of keys.csv
    key_REV7,          \* line 126
    id_REV7,           \* line 143
    pin,               \* level of the REV7 power pin
    gpio,              \* "unset", "setup" or "cleaned"
    cycles,            \* power cycles done
    counter,           \* waitForCLI's counter
    rev7_open,         \* rev7 serial port is open
    outputfile,        \* rows appended to rev7test.csv
    said               \* "Success!" / "Failed!" as printed, "" before

roomVars == <<pc, err, N_ITERATIONS, cfg, log, temperatures, valve_pc_list,
              temp, open_pc, valve_room_temps, valve_open_pc,
              air_temps, heat_in, heat_out, heat_stored, i, prev>>
provVars == <<ppc, perr, serNo_REV7, keyfile, key_REV7, id_REV7, pin, gpio,
              cycles, counter, rev7_open, outputfile, said>>
vars == <<roomVars, provVars>>

\* --------------------------------------------------------------- numbers
None == <<0, 0>>
NonFinite == <<1, 0>>
IsNum(x) == x[2] > 0

Abs(n) == IF n < 0 THEN -n ELSE n

RECURSIVE GCD(_, _)
GCD(a, b) == IF b = 0 THEN a ELSE GCD(b, a % b)

\* n/d in lowest terms, d # 0
Norm(n, d) ==
    LET s == IF d < 0 THEN -1 ELSE 1
        g == GCD(Abs(n), Abs(d))
    IN  <<(s * n) \div g, (s * d) \div g>>

R(n) == <<n, 1>>

RAdd(x, y) == IF IsNum(x) /\ IsNum(y)
              THEN Norm(x[1] * y[2] + y[1] * x[2], x[2] * y[2]) ELSE NonFinite
RNeg(x) == IF IsNum(x) THEN <<-x[1], x[2]>> ELSE NonFinite
RSub(x, y) == RAdd(x, RNeg(y))
RMul(x, y) == IF IsNum(x) /\ IsNum(y)
              THEN Norm(x[1] * y[1], x[2] * y[2]) ELSE NonFinite
\* numpy float64 / float: a zero divisor gives inf or nan with a warning
NpDiv(x, y) == IF IsNum(x) /\ IsNum(y) /\ y[1] # 0
               THEN Norm(x[1] * y[2], x[2] * y[1]) ELSE NonFinite
\* Python float / float, the divisor known to be non-zero
PyDiv(x, y) == Norm(x[1] * y[2], x[2] * y[1])

RECURSIVE Sum(_)
Sum(args) == IF args = <<>> THEN R(0) ELSE RAdd(Sum(SubSeq(args, 1, Len(args) - 1)), args[Len(args)])

\* Python list indexing: a negative index counts from the end
PyIndex(k, n) == IF k < 0 THEN k + n ELSE k
InRange(k, n) == k >= -n /\ k < n


\* ------------------------------------------------ room_model2.py: inputs
\* A decoded log line [timestamp, tag, fields]: ts is the timestamp in whole
\* seconds (the format "%Y-%m-%d %H:%M:%S" has no fraction), dev is fields['@'],
\* T_C16 and H_pc are fields['T|C16'] and fields['H|%'], -1 when the key is absent.
NoKey == 0 - 1

\* The shape of one line.  A line of another device is dropped by line 56 before
\* anything else of it is read, so one such shape is enough.
LineShapes ==
    {<<"other", 0, "T">>} \cup ({TARGET_ID} \X (0..MaxT) \X {"T", "H", "TH"})

\* Line k of a log carries values that no other line carries, so that an output
\* entry names the observation it came from.
MkLine(sh, k) ==
    [dev |-> sh[1], ts |-> sh[2],
     T_C16 |-> IF sh[3] \in {"T", "TH"} THEN 16 * k + 8 ELSE NoKey,
     H_pc |-> IF sh[3] \in {"H", "TH"} THEN 10 * k ELSE NoKey]

\* the log of n lines with the shapes sh
MkLog(sh, n) == [k \in 1..n |-> MkLine(sh[k], k)]

Cfgs ==
    [DENSITY_AIR : (0 - 1)..MaxDensity, Cp_AIR : {1}, ROOM_SIZE : {<<1, 1, 1>>, <<1, 2, 1>>},
     DHD_HLP : 1..MaxHlp, C_STORAGE : (0 - 1)..MaxStorage]

DefaultCfg ==
    [DENSITY_AIR |-> 1, Cp_AIR |-> 1, ROOM_SIZE |-> <<1, 1, 1>>, DHD_HLP |-> 1, C_STORAGE |-> 1]
DefaultLog == <<MkLine(<<TARGET_ID, 0, "TH">>, 1)>>

\* Derived constants, lines 41-43
VOLUME == cfg.ROOM_SIZE[1] * cfg.ROOM_SIZE[2] * cfg.ROOM_SIZE[3]
C_AIR == cfg.DENSITY_AIR * VOLUME * cfg.Cp_AIR
WALL_CONDUCTANCE == cfg.ROOM_SIZE[1] * cfg.ROOM_SIZE[2] * cfg.DHD_HLP
C_STORAGE == cfg.C_STORAGE

\* ------------------------------------------- room_model2.py: get_valve_data
Indices == 0..(N_ITERATIONS - 1)
EmptyArray == [k \in Indices |-> None]

\* line 56
filtered_valve_data == SelectSeq(log, LAMBDA x : x.dev = TARGET_ID)
\* line 57: (timestamp, T|C16 / 16.0) of the lines that have the key
raw_temps ==
    LET s == SelectSeq(filtered_valve_data, LAMBDA x : x.T_C16 # NoKey)
    IN  [k \in 1..Len(s) |-> <<s[k].ts, PyDiv(R(s[k].T_C16), R(16))>>]
\* line 58
raw_valve_pc ==
    LET s == SelectSeq(filtered_valve_data, LAMBDA x : x.H_pc # NoKey)
    IN  [k \in 1..Len(s) |-> <<s[k].ts, R(s[k].H_pc)>>]

\* line 71: the earlier of the two FIRST timestamps
start_time ==
    IF raw_temps[1][1] < raw_valve_pc[1][1] THEN raw_temps[1][1] ELSE raw_valve_pc[1][1]

\* lines 72-73: elapsed whole seconds; int() of line 78 leaves them as they are
Elapsed(raw) == [k \in 1..Len(raw) |-> <<raw[k][1] - start_time, raw[k][2]>>]

\* a break that also leaves at idx = n
PastEndInclusive(idx, n) == idx >= n

\* lines 79 and 84: the break condition
PastEnd(idx, n) == idx > n

\* lines 77-81 (and 82-86): the bucket loop from element k on.  err is the
\* IndexError of arr[i] = ... with i outside -n..n-1.
RECURSIVE BucketLoop(_, _, _, _)
BucketLoop(xs, k, arr, n) ==
    IF k > Len(xs) THEN [err |-> FALSE, arr |-> arr]
    ELSE LET idx == xs[k][1] IN
         IF PastEnd(idx, n) THEN [err |-> FALSE, arr |-> arr]
         ELSE IF ~InRange(idx, n) THEN [err |-> TRUE, arr |-> arr]
         ELSE BucketLoop(xs, k + 1, [arr EXCEPT ![PyIndex(idx, n)] = xs[k][2]], n)

\* lines 87-91 for one of the two lists, from index k on
RECURSIVE FillLoop(_, _, _)
FillLoop(arr, k, n) ==
    IF k >= n THEN arr
    ELSE FillLoop(IF arr[k] = None THEN [arr EXCEPT ![k] = arr[PyIndex(k - 1, n)]] ELSE arr,
                  k + 1, n)

\* a fill that reads the neighbour as it was before the loop
ForwardFillNoCarry(arr, n) ==
    [k \in 0..(n - 1) |-> IF arr[k] = None THEN arr[PyIndex(k - 1, n)] ELSE arr[k]]

ForwardFill(arr, n) == FillLoop(arr, 0, n)

\* lines 50-73 with both lists non-empty
ParseLog ==
    /\ pc = "parse"
    /\ Len(raw_temps) > 0 /\ Len(raw_valve_pc) > 0
    /\ temperatures' = Elapsed(raw_temps)
    /\ valve_pc_list' = Elapsed(raw_valve_pc)
    /\ pc' = "bucket"
    /\ UNCHANGED <<err, N_ITERATIONS, cfg, log, temp, open_pc, valve_room_temps,
                   valve_open_pc, air_temps, heat_in, heat_out, heat_stored, i, prev>>
    /\ UNCHANGED provVars

\* line 71 raises IndexError on temperatures[0] or valve_open_pc[0]
ParseLogFail ==
    /\ pc = "parse"
    /\ Len(raw_temps) = 0 \/ Len(raw_valve_pc) = 0
    /\ pc' = "error"
    /\ err' = "IndexError"
    /\ UNCHANGED <<N_ITERATIONS, cfg, log, temperatures, valve_pc_list, temp, open_pc,
                   valve_room_temps, valve_open_pc, air_temps, heat_in, heat_out,
                   heat_stored, i, prev>>
    /\ UNCHANGED provVars

BucketT == BucketLoop(temperatures, 1, EmptyArray, N_ITERATIONS)
BucketH == BucketLoop(valve_pc_list, 1, EmptyArray, N_ITERATIONS)

\* lines 75-86, no IndexError
Bucket ==
    /\ pc = "bucket"
    /\ ~BucketT.err /\ ~BucketH.err
    /\ temp' = BucketT.arr
    /\ open_pc' = BucketH.arr
    /\ pc' = "fill"
    /\ UNCHANGED <<err, N_ITERATIONS, cfg, log, temperatures, valve_pc_list,
                   valve_room_temps, valve_open_pc, air_temps, heat_in, heat_out,
                   heat_stored, i, prev>>
    /\ UNCHANGED provVars

\* lines 75-86, temp[i] = x[1] or open_pc[i] = x[1] raises IndexError
BucketFail ==
    /\ pc = "bucket"
    /\ BucketT.err \/ BucketH.err
    /\ temp' = BucketT.arr
    /\ open_pc' = IF BucketT.err THEN EmptyArray ELSE BucketH.arr
    /\ pc' = "error"
    /\ err' = "IndexError"
    /\ UNCHANGED <<N_ITERATIONS, cfg, log, temperatures, valve_pc_list,
                   valve_room_temps, valve_open_pc, air_temps, heat_in, heat_out,
                   heat_stored, i, prev>>
    /\ UNCHANGED provVars

\* lines 87-95: forward fill, return, and the assignment of line 95
FillAndReturn ==
    /\ pc = "fill"
    /\ valve_room_temps' = ForwardFill(temp, N_ITERATIONS)
    /\ valve_open_pc' = ForwardFill(open_pc, N_ITERATIONS)
    /\ pc' = "setup"
    /\ UNCHANGED <<err, N_ITERATIONS, cfg, log, temperatures, valve_pc_list, temp, open_pc,
                   air_temps, heat_in, heat_out, heat_stored, i, prev>>
    /\ UNCHANGED provVars

\* ----------------------------------------- room_model2.py: the simulation
calc_heat_loss_walls(inside_temp, outside_temp) ==
    RMul(RSub(outside_temp, inside_temp), R(WALL_CONDUCTANCE))

\* <<heat + delta_heat, delta_heat>>
calc_heat_storage(temperature, heat) ==
    LET delta_heat == RMul(RSub(temperature, NpDiv(heat, R(C_STORAGE))), R(STORAGE_CONDUCTANCE))
    IN  <<RAdd(heat, delta_heat), delta_heat>>

\* a temperature update that multiplies by the capacitance
calc_temp_times(temperature, capacitance, args) ==
    RAdd(temperature, RMul(capacitance, Sum(args)))

\* capacitance # 0
calc_temp(temperature, capacitance, args) ==
    RAdd(temperature, RMul(PyDiv(R(1), capacitance), Sum(args)))

\* an index i-1 that stops at 0
PrevIndexClamped(k) == IF k = 0 THEN 0 ELSE k - 1

\* the index i-1 of lines 161-165 as Python resolves it
PrevIndex(k) == PyIndex(k - 1, N_ITERATIONS)

\* heat_in and heat_out read at the index being written
LagIndexCurrent(k) == k

\* the index of heat_in[i-1] and heat_out[i-1], lines 164-165
LagIndex(k) == PrevIndex(k)

NoRead == [air |-> None, stored |-> None, hin |-> None, hout |-> None]

\* lines 152-155
SimSetup ==
    /\ pc = "setup"
    /\ air_temps' = [k \in Indices |-> R(START_TEMP)]
    /\ heat_in' = [k \in Indices |-> R(0)]
    /\ heat_out' = [k \in Indices |-> R(0)]
    /\ heat_stored' = [k \in Indices |-> R(START_TEMP * C_STORAGE)]
    /\ i' = 0
    /\ pc' = "loop"
    /\ UNCHANGED <<err, N_ITERATIONS, cfg, log, temperatures, valve_pc_list, temp, open_pc,
                   valve_room_temps, valve_open_pc, prev>>
    /\ UNCHANGED provVars

\* the arrays after lines 160-162 of iteration i
HeatInAfter == [heat_in EXCEPT ![i] = R(0)]
HeatOutAfter ==
    [heat_out EXCEPT ![i] = calc_heat_loss_walls(air_temps[PrevIndex(i)], R(OUTSIDE_TEMP))]
StorageStep == calc_heat_storage(air_temps[PrevIndex(i)], heat_stored[PrevIndex(i)])

\* lines 158-166, one iteration
SimStep ==
    /\ pc = "loop"
    /\ i < N_ITERATIONS
    /\ C_AIR # 0
    /\ heat_in' = HeatInAfter
    /\ heat_out' = HeatOutAfter
    /\ heat_stored' = [heat_stored EXCEPT ![i] = StorageStep[1]]
    /\ air_temps' = [air_temps EXCEPT ![i] =
                        calc_temp(air_temps[PrevIndex(i)], R(C_AIR),
                                  <<HeatInAfter[LagIndex(i)], HeatOutAfter[LagIndex(i)],
                                    RNeg(StorageStep[2])>>)]
    /\ prev' = [air |-> air_temps[PrevIndex(i)], stored |-> heat_stored[PrevIndex(i)],
                hin |-> HeatInAfter[LagIndex(i)], hout |-> HeatOutAfter[LagIndex(i)]]
    /\ i' = i + 1
    /\ UNCHANGED <<pc, err, N_ITERATIONS, cfg, log, temperatures, valve_pc_list, temp,
                   open_pc, valve_room_temps, valve_open_pc>>
    /\ UNCHANGED provVars

\* lines 158-163 with C_AIR = 0: 1.0 / capacitance raises ZeroDivisionError
\* after lines 160-162 have written index i
SimStepFail ==
    /\ pc = "loop"
    /\ i < N_ITERATIONS
    /\ C_AIR = 0
    /\ heat_in' = HeatInAfter
    /\ heat_out' = HeatOutAfter
    /\ heat_stored' = [heat_stored EXCEPT ![i] = StorageStep[1]]
    /\ pc' = "error"
    /\ err' = "ZeroDivisionError"
    /\ UNCHANGED <<N_ITERATIONS, cfg, log, temperatures, valve_pc_list, temp, open_pc,
                   valve_room_temps, valve_open_pc, air_temps, i, prev>>
    /\ UNCHANGED provVars

\* lines 172-175: air_temps[-1] and heat_stored[-1] need a non-empty array
Report ==
    /\ pc = "loop"
    /\ i = N_ITERATIONS
    /\ pc' = IF N_ITERATIONS = 0 THEN "error" ELSE "done"
    /\ err' = IF N_ITERATIONS = 0 THEN "IndexError" ELSE err
    /\ UNCHANGED <<N_ITERATIONS, cfg, log, temperatures, valve_pc_list, temp, open_pc,
                   valve_room_temps, valve_open_pc, air_temps, heat_in, heat_out,
                   heat_stored, i, prev>>
    /\ UNCHANGED provVars

ProvIdle ==
    /\ ppc = "idle" /\ perr = "" /\ serNo_REV7 = "" /\ keyfile = <<>>
    /\ key_REV7 = <<>> /\ id_REV7 = <<>> /\ pin = "unset" /\ gpio = "unset"
    /\ cycles = 0 /\ counter = 0 /\ rev7_open = FALSE /\ outputfile = <<>> /\ said = ""

\* The state when line 95 calls get_valve_data
RoomStart ==
    /\ pc = "parse" /\ err = ""
    /\ temperatures = <<>> /\ valve_pc_list = <<>>
    /\ temp = <<>> /\ open_pc = <<>>
    /\ valve_room_temps = <<>> /\ valve_open_pc = <<>>
    /\ air_temps = <<>> /\ heat_in = <<>> /\ heat_out = <<>> /\ heat_stored = <<>>
    /\ i = 0 /\ prev = NoRead

\* Either the log varies under one configuration, or the configuration varies
\* under one log.
Init ==
    /\ N_ITERATIONS \in 0..MaxIter
    /\ \/ /\ \E n \in 0..MaxLog : \E sh \in [1..n -> LineShapes] : log = MkLog(sh, n)
          /\ cfg = DefaultCfg
       \/ log = DefaultLog /\ cfg \in Cfgs
    /\ RoomStart
    /\ ProvIdle

Next ==
    \/ ParseLog
    \/ ParseLogFail
    \/ Bucket
    \/ BucketFail
    \/ FillAndReturn
    \/ SimSetup
    \/ SimStep
    \/ SimStepFail
    \/ Report

Spec == Init /\ [][Next]_vars


\* ------------------------------------------------- claims: get_valve_data
\* get_valve_data has returned and line 95 has assigned its result
LoaderReturned ==
    pc \in {"setup", "loop", "done"} \/ (pc = "error" /\ err = "ZeroDivisionError")
\* the bucket loops of lines 77-86 raised
BucketRaised == pc = "error" /\ err = "IndexError" /\ Len(temperatures) > 0
HasBoth == Len(raw_temps) > 0 /\ Len(raw_valve_pc) > 0

\* the minimum timestamp over all observations of both quantities
RECURSIVE MinOf(_)
MinOf(S) == LET x == CHOOSE y \in S : TRUE
            IN  IF S = {x} THEN x
                ELSE LET m == MinOf(S \ {x}) IN IF x < m THEN x ELSE m
MinTs == MinOf({raw_temps[k][1] : k \in 1..Len(raw_temps)}
               \cup {raw_valve_pc[k][1] : k \in 1..Len(raw_valve_pc)})
\* some observation of raw lands on index 0 of the series aligned at MinTs
LandsAtZero(raw) == \E k \in 1..Len(raw) : raw[k][1] - MinTs = 0

\* C1: for every log with at least one temperature and one valve observation of
\* the target device, the two sequences get_valve_data returns have exactly
\* N_ITERATIONS entries each and every entry is a number (none is None).
C1_FullyPopulated ==
    (LoaderReturned /\ HasBoth) =>
        /\ DOMAIN valve_room_temps = Indices
        /\ DOMAIN valve_open_pc = Indices
        /\ \A k \in Indices : IsNum(valve_room_temps[k]) /\ IsNum(valve_open_pc[k])

\* C2: when, for the temperature or for the valve opening, no observation lands
\* on index 0 of the aligned series, get_valve_data does not return sequences
\* (it fails with MissingInitialSample), so index 0 is never filled from
\* another index.
C2_MissingInitialSample ==
    (HasBoth /\ ~(LandsAtZero(raw_temps) /\ LandsAtZero(raw_valve_pc))) =>
        ~LoaderReturned

\* C3: an observation whose elapsed seconds are >= N_ITERATIONS (equal included)
\* is discarded without an error, and no output entry has its value.  Stated for
\* N_ITERATIONS >= 1 and the logs whose elapsed seconds are all >= 0, where
\* nothing else can raise.
C3_Truncation ==
    LET nonNeg(xs) == \A k \in 1..Len(xs) : xs[k][1] >= 0
        late(xs) == {xs[k][2] : k \in {j \in 1..Len(xs) : xs[j][1] >= N_ITERATIONS}}
    IN  /\ (N_ITERATIONS >= 1 /\ nonNeg(temperatures) /\ nonNeg(valve_pc_list)) => ~BucketRaised
        /\ LoaderReturned =>
              \A k \in Indices : /\ valve_room_temps[k] \notin late(temperatures)
                                 /\ valve_open_pc[k] \notin late(valve_pc_list)

\* C4: every observation is bucketed at its elapsed seconds from the minimum
\* timestamp over all observations of both quantities (so no index is negative),
\* and on return the entry at each such index within 0..N_ITERATIONS-1 holds the
\* value of an observation with that index, whatever the order of the lines.
C4_BucketAtElapsed ==
    LET held(xs, raw, out) ==
            \A k \in 1..Len(raw) :
                LET idx == raw[k][1] - MinTs IN
                idx \in Indices =>
                    \E j \in 1..Len(raw) : raw[j][1] - MinTs = idx /\ out[idx] = raw[j][2]
    IN  /\ Len(temperatures) > 0 =>
              /\ \A k \in 1..Len(temperatures) : temperatures[k][1] = raw_temps[k][1] - MinTs
              /\ \A k \in 1..Len(valve_pc_list) : valve_pc_list[k][1] = raw_valve_pc[k][1] - MinTs
        /\ LoaderReturned =>
              /\ held(temperatures, raw_temps, valve_room_temps)
              /\ held(valve_pc_list, raw_valve_pc, valve_open_pc)

\* C5: in the returned sequences, every index k > 0 at which the bucket loops
\* stored no observation holds the value of index k-1.
C5_ForwardFill ==
    LoaderReturned =>
        \A k \in Indices \ {0} :
            /\ temp[k] = None => valve_room_temps[k] = valve_room_temps[k - 1]
            /\ open_pc[k] = None => valve_open_pc[k] = valve_open_pc[k - 1]

\* a value carried over two empty indices in a row
C5_Witness ==
    /\ LoaderReturned
    /\ \E k \in Indices \ {0, 1} :
          /\ temp[k] = None /\ temp[k - 1] = None
          /\ IsNum(valve_room_temps[k])
          /\ valve_room_temps[k] = valve_room_temps[k - 2]


\* ------------------------------------------------- claims: the simulation
SimRunning == pc \in {"loop", "done"}

\* C6: a non-positive air heat capacity or storage capacity is rejected at setup
\* (InvalidParameter) before the first step: no iteration of the loop, whole or
\* in part, is ever executed with such a parameter.
C6_InvalidParameter ==
    (C_AIR <= 0 \/ C_STORAGE <= 0) =>
        /\ ~(SimRunning /\ i >= 1)
        /\ err # "ZeroDivisionError"

DeltaHeat(t, h) == RMul(RSub(t, NpDiv(h, R(C_STORAGE))), R(STORAGE_CONDUCTANCE))
\* the right-hand side of the update as the claim writes it
UpdatedTemp(t, hin, hout, d) ==
    RAdd(t, RMul(PyDiv(R(1), R(C_AIR)), RSub(RAdd(hin, hout), d)))

SeedOr(arr, k, seed) == IF k < 0 THEN seed ELSE arr[k]

\* iteration 0 read the seeds through index -1, and every entry written so far
\* is the update of the entries before it, the seeds standing in for index -1
SeedChain ==
    /\ i = 1 => prev = [air |-> R(START_TEMP), stored |-> R(START_TEMP * C_STORAGE),
                        hin |-> R(0), hout |-> R(0)]
    /\ \A k \in 0..(i - 1) :
          LET a == SeedOr(air_temps, k - 1, R(START_TEMP))
              h == SeedOr(heat_stored, k - 1, R(START_TEMP * C_STORAGE))
              qi == SeedOr(heat_in, k - 1, R(0))
              qo == SeedOr(heat_out, k - 1, R(0))
          IN  /\ heat_in[k] = R(0)
              /\ heat_out[k] = RMul(RSub(R(OUTSIDE_TEMP), a), R(WALL_CONDUCTANCE))
              /\ heat_stored[k] = RAdd(h, DeltaHeat(a, h))
              /\ air_temps[k] = UpdatedTemp(a, qi, qo, DeltaHeat(a, h))

\* C10 as claimed: for every N_ITERATIONS >= 1 the reads of iteration 0 through
\* index -1 return the seeds (START_TEMP, START_TEMP * C_STORAGE, 0.0, 0.0), so
\* each entry depends only on the entries before it.
C10_SeedReadsFromOne ==
    (SimRunning /\ N_ITERATIONS >= 1) => SeedChain

\* C10 as amended: the same for every N_ITERATIONS >= 2.
C10_SeedReadsFromTwo ==
    (SimRunning /\ N_ITERATIONS >= 2) => SeedChain

\* iteration 0 has written a non-zero heat_out[0] and read 0.0 as heat_out[-1]
C10_Witness ==
    /\ pc = "loop" /\ N_ITERATIONS >= 2 /\ i = 1
    /\ heat_out[0] # R(0)
    /\ prev.hout = R(0)


\* ---------------------------------------------------------- config_rev7.py
MaxWait == 5              \* line 25: waitForCLI gives up after 5 more lines
ID_FROM == 4              \* line 95: string[4:27]
ID_TO == 27
RX_FROM == 6              \* line 173: rxString[6:22]
RX_TO == 22
MaxRows == 2              \* keys.csv holds at most MaxRows rows

\* Python's s[a:b] on a sequence of characters
PySlice(s, a, b) == SubSeq(s, a + 1, IF b < Len(s) THEN b ELSE Len(s))

\* str.replace(' ', '')
RECURSIVE StripSpaces(_)
StripSpaces(s) ==
    IF s = <<>> THEN <<>>
    ELSE IF s[1] = " " THEN StripSpaces(Tail(s)) ELSE <<s[1]>> \o StripSpaces(Tail(s))

\* the reply line "ID: xx xx xx xx xx xx xx xx\r\n" of a REV7 whose ID bytes are all xx
IdLine(h, l) ==
    <<"I", "D", ":", " ">> \o [k \in 1..23 |-> IF k % 3 = 1 THEN h ELSE IF k % 3 = 2 THEN l ELSE " "]
        \o <<"\r", "\n">>
\* what the second readline of getID can return: nothing (timeout) or an ID line
IdLines == {<<>>, IdLine("8", "0"), IdLine("A", "F")}

SerNos == {"SN1", "SN2", "SN3"}
KeyOf(sn) == IF sn = "SN1" THEN "KEY1" ELSE IF sn = "SN2" THEN "KEY2" ELSE "KEY3"
\* keys.csv: rows <<serial number, key>> of the first n serial numbers
KeyFiles ==
    {<<>>} \cup {[k \in 1..n |-> LET sn == IF k = 1 THEN "SN1" ELSE IF k = 2 THEN "SN2" ELSE "SN3"
                                IN  <<sn, KeyOf(sn)>>] : n \in 1..MaxRows}

\* lines 66-73: the second column of the first row that holds serNo, else 0
RECURSIVE getKeyFrom(_, _, _)
getKeyFrom(rows, k, serNo) ==
    IF k > Len(rows) THEN 0
    ELSE IF \E c \in 1..Len(rows[k]) : rows[k][c] = serNo THEN k
    ELSE getKeyFrom(rows, k + 1, serNo)
\* the index of the row getKey returns from, 0 when it returns 0
getKeyRow == getKeyFrom(keyfile, 1, serNo_REV7)

\* line 77: serNo is a command-line string, which never equals the int 0
SerNoIsZero(serNo) == FALSE

\* lines 76-83
writeOut(rows, serNo, key, id) ==
    IF SerNoIsZero(serNo) THEN rows ELSE Append(rows, <<serNo, key, id>>)

\* lines 171-174
rxString == <<>>
rxID == PySlice(rxString, RX_FROM, RX_TO)
rev7ID == StripSpaces(id_REV7)

provRest == <<serNo_REV7, keyfile>>

\* line 126 with the serial number found in keys.csv
GetKey ==
    /\ ppc = "getKey"
    /\ getKeyRow # 0
    /\ key_REV7' = <<"K B ", keyfile[getKeyRow][2]>>
    /\ ppc' = "open"
    /\ UNCHANGED <<perr, id_REV7, pin, gpio, cycles, counter, rev7_open, outputfile, said>>
    /\ UNCHANGED provRest /\ UNCHANGED roomVars

\* line 126 with getKey returning 0: 'K B ' + 0 raises TypeError
GetKeyFail ==
    /\ ppc = "getKey"
    /\ getKeyRow = 0
    /\ ppc' = "error"
    /\ perr' = "TypeError"
    /\ UNCHANGED <<key_REV7, id_REV7, pin, gpio, cycles, counter, rev7_open, outputfile, said>>
    /\ UNCHANGED provRest /\ UNCHANGED roomVars

\* lines 130-134: both ports opened, setup() drives the pin HIGH (REV7 off)
OpenAndSetup ==
    /\ ppc = "open"
    /\ rev7_open' = TRUE
    /\ pin' = "HIGH"
    /\ gpio' = "setup"
    /\ ppc' = "cycle1"
    /\ UNCHANGED <<perr, key_REV7, id_REV7, cycles, counter, outputfile, said>>
    /\ UNCHANGED provRest /\ UNCHANGED roomVars

AfterCycle(p) == IF p = "cycle1" THEN "wait1" ELSE IF p = "cycle2" THEN "wait2" ELSE "compare"

\* lines 31-39: the second line read after power-on is the POST banner
PowerCycleOk ==
    /\ ppc \in {"cycle1", "cycle2", "cycle3"}
    /\ pin' = "LOW"
    /\ cycles' = cycles + 1
    /\ ppc' = AfterCycle(ppc)
    /\ UNCHANGED <<perr, key_REV7, id_REV7, gpio, counter, rev7_open, outputfile, said>>
    /\ UNCHANGED provRest /\ UNCHANGED roomVars

\* a powerCycle whose else branch prints and powers off but does not exit()
PowerCycleFailNoExit ==
    /\ ppc \in {"cycle1", "cycle2", "cycle3"}
    /\ pin' = "HIGH"
    /\ gpio' = "cleaned"
    /\ cycles' = cycles + 1
    /\ ppc' = AfterCycle(ppc)
    /\ perr' = "REV7 not found"
    /\ UNCHANGED <<key_REV7, id_REV7, counter, rev7_open, outputfile, said>>
    /\ UNCHANGED provRest /\ UNCHANGED roomVars

\* lines 31-44: any other line (or a timeout): power off, cleanup, exit()
PowerCycleFail ==
    /\ ppc \in {"cycle1", "cycle2", "cycle3"}
    /\ pin' = "HIGH"
    /\ gpio' = "cleaned"
    /\ cycles' = cycles + 1
    /\ ppc' = "exited"
    /\ perr' = "REV7 not found"
    /\ UNCHANGED <<key_REV7, id_REV7, counter, rev7_open, outputfile, said>>
    /\ UNCHANGED provRest /\ UNCHANGED roomVars

\* lines 21-28: n lines other than the prompt are read before the loop ends
WaitForCLI ==
    /\ ppc \in {"wait1", "wait2"}
    /\ \E n \in 0..MaxWait : counter' = n
    /\ ppc' = IF ppc = "wait1" THEN "getID" ELSE "setKey2"
    /\ UNCHANGED <<perr, key_REV7, id_REV7, pin, gpio, cycles, rev7_open, outputfile, said>>
    /\ UNCHANGED provRest /\ UNCHANGED roomVars

\* lines 91-95 and 143.  sendCmd spins until a prompt arrives; a REV7 that never
\* prompts leaves the run here for ever.
GetID ==
    /\ ppc = "getID"
    /\ \E line \in IdLines : id_REV7' = PySlice(line, ID_FROM, ID_TO)
    /\ ppc' = "setKey1"
    /\ UNCHANGED <<perr, key_REV7, pin, gpio, cycles, counter, rev7_open, outputfile, said>>
    /\ UNCHANGED provRest /\ UNCHANGED roomVars

\* lines 148-149, 153-154 and 159-165: the key (and the node association) is
\* sent; no reply is examined
SendKey ==
    /\ ppc \in {"setKey1", "setKey2", "rev11"}
    /\ ppc' = IF ppc = "setKey1" THEN "cycle2" ELSE IF ppc = "setKey2" THEN "rev11" ELSE "cycle3"
    /\ UNCHANGED <<perr, key_REV7, id_REV7, pin, gpio, cycles, counter, rev7_open,
                   outputfile, said>>
    /\ UNCHANGED provRest /\ UNCHANGED roomVars

\* the comparison of line 175, which the code has commented out
CompareIds == rxID = rev7ID

\* line 176: "if True"
Verified == TRUE

\* lines 171-181
Compare ==
    /\ ppc = "compare"
    /\ said' = IF Verified THEN "Success!" ELSE "Failed!"
    /\ outputfile' = IF Verified THEN writeOut(outputfile, serNo_REV7, key_REV7, id_REV7)
                     ELSE outputfile
    /\ ppc' = "close"
    /\ UNCHANGED <<perr, key_REV7, id_REV7, pin, gpio, cycles, counter, rev7_open>>
    /\ UNCHANGED provRest /\ UNCHANGED roomVars

\* lines 183-184: rev7.close() and end()
CloseAndEnd ==
    /\ ppc = "close"
    /\ rev7_open' = FALSE
    /\ pin' = "HIGH"
    /\ gpio' = "cleaned"
    /\ ppc' = "done"
    /\ UNCHANGED <<perr, key_REV7, id_REV7, cycles, counter, outputfile, said>>
    /\ UNCHANGED provRest /\ UNCHANGED roomVars

RoomIdle ==
    /\ pc = "idle" /\ err = "" /\ N_ITERATIONS = 0 /\ cfg = DefaultCfg /\ log = <<>>
    /\ temperatures = <<>> /\ valve_pc_list = <<>>
    /\ temp = <<>> /\ open_pc = <<>>
    /\ valve_room_temps = <<>> /\ valve_open_pc = <<>>
    /\ air_temps = <<>> /\ heat_in = <<>> /\ heat_out = <<>> /\ heat_stored = <<>>
    /\ i = 0 /\ prev = NoRead

\* main(sys.argv[1:]) is entered with a serial number and a keys.csv
InitProv ==
    /\ ppc = "getKey" /\ perr = ""
    /\ serNo_REV7 \in SerNos
    /\ keyfile \in KeyFiles
    /\ key_REV7 = <<>> /\ id_REV7 = <<>>
    /\ pin = "unset" /\ gpio = "unset"
    /\ cycles = 0 /\ counter = 0 /\ rev7_open = FALSE
    /\ outputfile = <<>> /\ said = ""
    /\ RoomIdle

NextProv ==
    \/ GetKey
    \/ GetKeyFail
    \/ OpenAndSetup
    \/ PowerCycleOk
    \/ PowerCycleFail
    \/ WaitForCLI
    \/ GetID
    \/ SendKey
    \/ Compare
    \/ CloseAndEnd

SpecProv == InitProv /\ [][NextProv]_vars

\* ------------------------------------------------- claims: config_rev7.py
\* C9: the run reports success and appends the row <<serial number, key, ID>>
\* to the output CSV only when the ID received from the REV11 equals the
\* programmed REV7's ID, and reports failure without a row otherwise.
C9_VerifiedBeforeRow ==
    ppc \in {"close", "done"} =>
        IF rxID = rev7ID
        THEN said = "Success!"
        ELSE said = "Failed!" /\ outputfile = <<>>


\* C11: once a power cycle has not read the POST banner as its second line, the
\* run has ended there (nothing more can happen) with the REV7 power pin off
\* (HIGH) and the GPIO released, and no row was appended in that run; a row is
\* appended only in a run whose three power cycles all matched the banner.
C11_BannerMismatchStops ==
    /\ perr = "REV7 not found" =>
          /\ ppc = "exited"
          /\ pin = "HIGH" /\ gpio = "cleaned"
          /\ outputfile = <<>>
          /\ ~ENABLED NextProv
    /\ outputfile # <<>> => (cycles = 3 /\ perr = "")

\* the third power cycle, after the key was sent twice, missed the banner
C11_Witness ==
    /\ ppc = "exited" /\ perr = "REV7 not found"
    /\ cycles = 3 /\ key_REV7 # <<>> /\ id_REV7 # <<>>
    /\ pin = "HIGH" /\ gpio = "cleaned"

====
